---- MODULE Spec2Model ----
(***************************************************************************)
(* Examples/RingOfProcessors.py: processors attached to routers that form  *)
(* two counter-rotating rings (ring A over the rea/ria ports, ring B over  *)
(* the reb/rib ports).  Every link is a credit-controlled egress pipeline  *)
(* bound to an ingress buffer; every router has one arbiter per ring.      *)
(*                                                                         *)
(* Virtual time is abstracted: every packet-moving step (a put accepted by *)
(* a pipeline, a pipeline's delivery to its buffer, an arbitration cycle,  *)
(* a credit signal, a processor's get and the end of its processing        *)
(* delay) is one action.  In Spec and SpecLoad the actions interleave       *)
(* freely, and every timing of the discrete-event run is one of these      *)
(* interleavings.  SpecC and SpecD take the same actions in the order of a *)
(* scheduler that resolves ties by registration order, which keeps the     *)
(* full load of the example (SpecC) and a load that fills a ring (SpecD)   *)
(* within reach of the model checker.                                      *)
(***************************************************************************)
EXTENDS Integers, Sequences, FiniteSets, TLC

\* ---------------------------------------------------------------- bounds
\* Ring size of the model (createSystem builds range(6)).
NumProcs == 3
\* Packets injected in one run of Spec, over all ports.
MaxPkts == 2
\* Iterations of runEgPort's loop on processor 0's pea in SpecLoad ("the number
\* of packets can be increased in the runEgport() method").
Load == 2
\* Iterations of runEgPort's loop on every processor's pea in SpecD.
LoadD == 5

\* ------------------------------------------------------ program constants
\* for i in range(1)
NumPkts == 1
\* RouterEgressArbiter(..., inPorts=2, outPorts=2, ...)
inPorts == 2
outPorts == 2

Procs == 0 .. (NumProcs - 1)

\* ------------------------------------------------------------- components
\* A port of a unit: <<unit class, unit ID, port name>>.
RouterEgports == {"rea", "reb", "pea", "peb"}
RouterIgports == {"ria", "rib", "pia", "pib"}
ProcEgports == {"pea", "peb"}
ProcIgports == {"pia", "pib"}
RouterArbiters == {"rea", "reb"}

Pipelines ==
    {<<"Router", i, e>> : i \in Procs, e \in RouterEgports}
        \cup {<<"Processor", i, e>> : i \in Procs, e \in ProcEgports}

Buffers ==
    {<<"Router", i, g>> : i \in Procs, g \in RouterIgports}
        \cup {<<"Processor", i, g>> : i \in Procs, g \in ProcIgports}

Arbiters == {<<i, a>> : i \in Procs, a \in RouterArbiters}

\* FlowControlledPipeline(..., depth=, initCredits=)
depth(pl) ==
    IF pl[1] = "Router" /\ pl[3] \in {"rea", "reb"} THEN 4 ELSE 2

initCredits(pl) ==
    IF pl[1] = "Router" /\ pl[3] \in {"rea", "reb"} THEN 4 ELSE 2

\* Mutant of capacity: the routers' ring-facing buffers built with capacity 2
\* like the others.
capacity_allTwo(b) == 2

\* FlowControlledBuffer(..., capacity=)
capacity(b) ==
    IF b[1] = "Router" /\ b[3] \in {"ria", "rib"} THEN 4 ELSE 2

\* The ring a port belongs to: its name's last letter.
RingOf(name) ==
    IF name \in {"rea", "ria", "pea", "pia"} THEN "a" ELSE "b"

\* ----------------------------------------------------------------- wiring
\* Router.connectInternal: the arbiters' inputs (toUp) ...
ArbToUp(arb, inPort) ==
    IF arb = "rea"
    THEN (IF inPort = 0 THEN "ria" ELSE "pia")
    ELSE (IF inPort = 0 THEN "rib" ELSE "pib")

\* Mutant of ArbToDn: arbiter reb's ring output wired to egress rea.
ArbToDn_cross(arb, outPort) ==
    IF arb = "rea"
    THEN (IF outPort = 0 THEN "rea" ELSE "pea")
    ELSE (IF outPort = 0 THEN "rea" ELSE "peb")

\* ... and the arbiters' outputs (toDn).
ArbToDn(arb, outPort) ==
    IF arb = "rea"
    THEN (IF outPort = 0 THEN "rea" ELSE "pea")
    ELSE (IF outPort = 0 THEN "reb" ELSE "peb")

\* Mutant of connectP2R: the processor's peb bound to the router's pia as well.
connectP2R_dup(i) ==
    { << <<"Processor", i, "pea">>, <<"Router", i, "pia">> >>,
      << <<"Processor", i, "peb">>, <<"Router", i, "pia">> >>,
      << <<"Router", i, "pea">>, <<"Processor", i, "pia">> >>,
      << <<"Router", i, "peb">>, <<"Processor", i, "pib">> >> }

\* Example1.connectP2R(processor, router), both of ID i.
connectP2R(i) ==
    { << <<"Processor", i, "pea">>, <<"Router", i, "pia">> >>,
      << <<"Processor", i, "peb">>, <<"Router", i, "pib">> >>,
      << <<"Router", i, "pea">>, <<"Processor", i, "pia">> >>,
      << <<"Router", i, "peb">>, <<"Processor", i, "pib">> >> }

\* Mutant of connectR2R: ring B wired in ring A's direction (router0's reb to
\* router1's rib).
connectR2R_sameDir(r0, r1) ==
    { << <<"Router", r0, "rea">>, <<"Router", r1, "ria">> >>,
      << <<"Router", r0, "reb">>, <<"Router", r1, "rib">> >> }

\* Example1.connectR2R(router0, router1).
connectR2R(r0, r1) ==
    { << <<"Router", r0, "rea">>, <<"Router", r1, "ria">> >>,
      << <<"Router", r1, "reb">>, <<"Router", r0, "rib">> >> }

\* Example1.createSystem: the topology edges (egress pipeline, ingress buffer).
createSystem ==
    UNION {connectP2R(i) : i \in Procs}
        \cup UNION {connectR2R(i - 1, i) : i \in Procs \ {0}}
        \cup connectR2R(NumProcs - 1, 0)

\* The buffer a pipeline is bound to, and the pipeline a buffer returns its
\* credits to.
toDnBuffer(pl) == CHOOSE b \in Buffers : <<pl, b>> \in createSystem
fromUpPipe(b) == CHOOSE pl \in Pipelines : <<pl, b>> \in createSystem

\* ------------------------------------------------------------------ state
VARIABLES
    inFlight,       \* pipeline -> the packets in its stages, oldest first
    creditBalance,  \* pipeline -> credits it holds
    queue,          \* buffer -> its packets, head first
    creditsOwed,    \* buffer -> credit signals scheduled and not yet received
    rrPtr,          \* arbiter -> output -> the input that has priority
    lastGrant,      \* arbiter -> output -> the last grant made on it
    toSend,         \* processor egress port -> iterations runEgPort has left
    injected,       \* packets created and accepted by an egport.put so far
    limit,          \* packets the run injects at most (fixed by Init)
    cfg,            \* the constructors' arguments: buffer -> capacity,
                    \* pipeline -> initCredits (fixed by Init)
    received        \* processor ingress port -> packets its get() returned

vars ==
    <<inFlight, creditBalance, queue, creditsOwed, rrPtr, lastGrant,
      toSend, injected, limit, cfg, received>>

EgPorts == {<<i, e>> : i \in Procs, e \in ProcEgports}
IgPorts == {<<i, g>> : i \in Procs, g \in ProcIgports}

NoGrant == [inPort |-> -1, waiting |-> FALSE]

\* The arguments Router.__init__ and Processor.__init__ pass to their ports.
ExampleCfg ==
    [capacity |-> [b \in Buffers |-> capacity(b)],
     initCredits |-> [pl \in Pipelines |-> initCredits(pl)]]

\* The state after construction with the ports built from c; runEgPort's loop
\* has send[ep] iterations on egress port ep and the run injects at most max
\* packets.
InitCfg(send, max, c) ==
    /\ cfg = c
    /\ inFlight = [pl \in Pipelines |-> <<>>]
    /\ creditBalance = [pl \in Pipelines |-> c.initCredits[pl]]
    /\ queue = [b \in Buffers |-> <<>>]
    /\ creditsOwed = [b \in Buffers |-> 0]
    /\ rrPtr = [a \in Arbiters |-> [o \in 0 .. (outPorts - 1) |-> 0]]
    /\ lastGrant = [a \in Arbiters |-> [o \in 0 .. (outPorts - 1) |-> NoGrant]]
    /\ toSend = send
    /\ injected = 0
    /\ limit = max
    /\ received = [ip \in IgPorts |-> <<>>]

\* The state after construction of the example.
InitWith(send, max) == InitCfg(send, max, ExampleCfg)

\* The example as coded: range(1) on every egress port.
Init == InitWith([ep \in EgPorts |-> NumPkts], MaxPkts)

\* ------------------------------------------------ RouterEgressArbiter
\* Mutant of route: every packet on the ring-facing input exits, whatever its
\* destProc.
route_exitFirst(routerID, inPort, pkt) ==
    IF inPort = 0 THEN 1 ELSE 0

\* Mutant of route: the exit is taken on destProc alone ("and inPort==0"
\* dropped).
route_noInPortCheck(routerID, inPort, pkt) ==
    IF pkt.destProc = routerID THEN 1 ELSE 0

\* Mutant of route: the exit taken for the processor-facing input instead.
route_wrongInPort(routerID, inPort, pkt) ==
    IF pkt.destProc = routerID /\ inPort = 1 THEN 1 ELSE 0

\* RouterEgressArbiter.route: the output port of the packet peeked on inPort.
route(routerID, inPort, pkt) ==
    IF pkt.destProc = routerID /\ inPort = 0 THEN 1 ELSE 0

\* Mutant of unMask: the request is never masked.
unMask_always(a, pkt, outPort) == TRUE

\* FlowControlledPipeline.waitForCredit: fires once the pipeline holds a credit.
waitForCredit(pl) == creditBalance[pl] > 0

\* RouterEgressArbiter.unMask(pkt, outPort) of arbiter a.
unMask(a, pkt, outPort) ==
    waitForCredit(<<"Router", a[1], ArbToDn(a[2], outPort)>>)

\* The buffer on input inPort and the pipeline on output outPort of arbiter a.
toUp(a, inPort) == <<"Router", a[1], ArbToUp(a[2], inPort)>>
toDn(a, outPort) == <<"Router", a[1], ArbToDn(a[2], outPort)>>

InPortSet == 0 .. (inPorts - 1)
OutPortSet == 0 .. (outPorts - 1)

\* The inputs whose peek returns a packet, and the output each is routed to.
Requests(a) == {i \in InPortSet : queue[toUp(a, i)] # <<>>}
routes(a, i) == route(a[1], i, Head(queue[toUp(a, i)]))
Contenders(a, o) == {i \in Requests(a) : routes(a, i) = o}

\* Mutant of RRWinner: fixed priority, the lowest contending input wins.
RRWinner_fixed(cands, ptr) ==
    CHOOSE c \in cands : \A d \in cands : c <= d

\* Round robin: the contender at or after the pointer, wrapping.
RRWinner(cands, ptr) ==
    CHOOSE c \in cands :
        \A d \in cands : ((c - ptr) % inPorts) <= ((d - ptr) % inPorts)

Winner(a, o) == RRWinner(Contenders(a, o), rrPtr[a][o])

\* The outputs on which this cycle commits a grant.
Granted(a, o) ==
    /\ Contenders(a, o) # {}
    /\ unMask(a, Head(queue[toUp(a, Winner(a, o))]), o)

GrantedOuts(a) == {o \in OutPortSet : Granted(a, o)}

\* The routing decision recorded with the packet (self.routes, routedPktList,
\* the DEBUG log line).
Routed(pkt, a, i, o) ==
    [pkt EXCEPT !.hops = Append(@, [routerID |-> a[1], arb |-> a[2],
                                    inPort |-> i, out |-> ArbToDn(a[2], o)])]

\* Mutant of ArbCycle: on a granted output every contending input is dequeued
\* and put into the output's pipeline.
ArbCycle_allContenders(a) ==
    \E G \in {GrantedOuts(a)} : \E W \in {[o \in G |-> Winner(a, o)]} :
        /\ G # {}
        /\ queue' = [b \in Buffers |->
                IF \E o \in G : \E i \in Contenders(a, o) : b = toUp(a, i)
                THEN Tail(queue[b]) ELSE queue[b]]
        /\ creditsOwed' = [b \in Buffers |->
                IF \E o \in G : \E i \in Contenders(a, o) : b = toUp(a, i)
                THEN creditsOwed[b] + 1 ELSE creditsOwed[b]]
        /\ inFlight' = [pl \in Pipelines |->
                IF \E o \in G : pl = toDn(a, o)
                THEN LET o == CHOOSE x \in G : pl = toDn(a, x)
                         taken(i) == IF i \in Contenders(a, o)
                                     THEN <<Routed(Head(queue[toUp(a, i)]), a, i, o)>>
                                     ELSE <<>>
                     IN  inFlight[pl] \o taken(0) \o taken(1)
                ELSE inFlight[pl]]
        /\ creditBalance' = [pl \in Pipelines |->
                IF \E o \in G : pl = toDn(a, o)
                THEN LET o == CHOOSE x \in G : pl = toDn(a, x)
                     IN  creditBalance[pl] - Cardinality(Contenders(a, o))
                ELSE creditBalance[pl]]
        /\ rrPtr' = [rrPtr EXCEPT ![a] = [o \in OutPortSet |->
                IF o \in G THEN (W[o] + 1) % inPorts ELSE @[o]]]
        /\ lastGrant' = [lastGrant EXCEPT ![a] = [o \in OutPortSet |->
                IF o \in G
                THEN [inPort |-> W[o],
                      waiting |-> (Contenders(a, o) \ {W[o]}) # {}]
                ELSE @[o]]]
        /\ UNCHANGED <<toSend, injected, limit, cfg, received>>

\* Mutant of ArbCycle: the pointer of an output also moves past the winner when
\* the grant is withheld for lack of credit.
ArbCycle_ptrOnDenied(a) ==
    \E G \in {GrantedOuts(a)} : \E D \in {{o \in OutPortSet : Contenders(a, o) # {}}} :
      \E W \in {[o \in D |-> Winner(a, o)]} :
        /\ D # {}
        /\ queue' = [b \in Buffers |->
                IF \E o \in G : b = toUp(a, W[o]) THEN Tail(queue[b])
                ELSE queue[b]]
        /\ creditsOwed' = [b \in Buffers |->
                IF \E o \in G : b = toUp(a, W[o]) THEN creditsOwed[b] + 1
                ELSE creditsOwed[b]]
        /\ inFlight' = [pl \in Pipelines |->
                IF \E o \in G : pl = toDn(a, o)
                THEN LET o == CHOOSE x \in G : pl = toDn(a, x)
                     IN  Append(inFlight[pl],
                                Routed(Head(queue[toUp(a, W[o])]), a, W[o], o))
                ELSE inFlight[pl]]
        /\ creditBalance' = [pl \in Pipelines |->
                IF \E o \in G : pl = toDn(a, o) THEN creditBalance[pl] - 1
                ELSE creditBalance[pl]]
        /\ rrPtr' = [rrPtr EXCEPT ![a] = [o \in OutPortSet |->
                IF o \in D THEN (W[o] + 1) % inPorts ELSE @[o]]]
        /\ lastGrant' = [lastGrant EXCEPT ![a] = [o \in OutPortSet |->
                IF o \in G
                THEN [inPort |-> W[o],
                      waiting |-> (Contenders(a, o) \ {W[o]}) # {}]
                ELSE @[o]]]
        /\ UNCHANGED <<toSend, injected, limit, cfg, received>>

\* One arbitration cycle of arbiter a: for every output, the round-robin winner
\* among the inputs routed to it is dequeued and put into the output's pipeline
\* once unMask confirms a credit.
ArbCycle(a) ==
    \E G \in {GrantedOuts(a)} : \E W \in {[o \in G |-> Winner(a, o)]} :
        /\ G # {}
        /\ queue' = [b \in Buffers |->
                IF \E o \in G : b = toUp(a, W[o]) THEN Tail(queue[b])
                ELSE queue[b]]
        /\ creditsOwed' = [b \in Buffers |->
                IF \E o \in G : b = toUp(a, W[o]) THEN creditsOwed[b] + 1
                ELSE creditsOwed[b]]
        /\ inFlight' = [pl \in Pipelines |->
                IF \E o \in G : pl = toDn(a, o)
                THEN LET o == CHOOSE x \in G : pl = toDn(a, x)
                     IN  Append(inFlight[pl],
                                Routed(Head(queue[toUp(a, W[o])]), a, W[o], o))
                ELSE inFlight[pl]]
        /\ creditBalance' = [pl \in Pipelines |->
                IF \E o \in G : pl = toDn(a, o) THEN creditBalance[pl] - 1
                ELSE creditBalance[pl]]
        /\ rrPtr' = [rrPtr EXCEPT ![a] = [o \in OutPortSet |->
                IF o \in G THEN (W[o] + 1) % inPorts ELSE @[o]]]
        /\ lastGrant' = [lastGrant EXCEPT ![a] = [o \in OutPortSet |->
                IF o \in G
                THEN [inPort |-> W[o],
                      waiting |-> (Contenders(a, o) \ {W[o]}) # {}]
                ELSE @[o]]]
        /\ UNCHANGED <<toSend, injected, limit, cfg, received>>

\* ------------------------------------------- pipeline and buffer (link)
\* The pipeline's staged delay has elapsed for its oldest packet: it is put into
\* the bound buffer, which accepts it unless it is full.
Deliver(pl) ==
    LET b == toDnBuffer(pl)
    IN  /\ inFlight[pl] # <<>>
        /\ Len(queue[b]) < cfg.capacity[b]
        /\ queue' = [queue EXCEPT ![b] = Append(@, Head(inFlight[pl]))]
        /\ inFlight' = [inFlight EXCEPT ![pl] = Tail(@)]
        /\ UNCHANGED <<creditBalance, creditsOwed, rrPtr, lastGrant, toSend,
                       injected, limit, cfg, received>>

\* A credit signal scheduled by buffer b's get() reaches the pipeline feeding it.
receiveCredit(b) ==
    /\ creditsOwed[b] > 0
    /\ creditsOwed' = [creditsOwed EXCEPT ![b] = @ - 1]
    /\ creditBalance' = [creditBalance EXCEPT ![fromUpPipe(b)] = @ + 1]
    /\ UNCHANGED <<inFlight, queue, rrPtr, lastGrant, toSend, injected,
                   limit, cfg, received>>

\* ------------------------------------------------------------ Processor
\* Mutant of runEgPortTo: the put is accepted whether or not the pipeline holds
\* a credit.
runEgPortTo_noWait(p, e, dests) ==
    LET pl == <<"Processor", p, e>>
    IN  /\ toSend[<<p, e>>] > 0
        /\ injected < limit
        /\ \E destProc \in dests :
              inFlight' = [inFlight EXCEPT ![pl] =
                  Append(@, [srcProc |-> p, destProc |-> destProc,
                             egport |-> e, iter |-> toSend[<<p, e>>],
                             hops |-> <<>>])]
        /\ creditBalance' = [creditBalance EXCEPT ![pl] = @ - 1]
        /\ toSend' = [toSend EXCEPT ![<<p, e>>] = @ - 1]
        /\ injected' = injected + 1
        /\ UNCHANGED <<queue, creditsOwed, rrPtr, lastGrant, limit, cfg, received>>

\* Processor.runEgPort, one iteration: a packet for a random other processor
\* is created and put into the egress pipeline, which accepts it once it holds
\* a credit.
runEgPortTo(p, e, dests) ==
    LET pl == <<"Processor", p, e>>
    IN  /\ toSend[<<p, e>>] > 0
        /\ injected < limit
        /\ waitForCredit(pl)
        /\ \E destProc \in dests :
              inFlight' = [inFlight EXCEPT ![pl] =
                  Append(@, [srcProc |-> p, destProc |-> destProc,
                             egport |-> e, iter |-> toSend[<<p, e>>],
                             hops |-> <<>>])]
        /\ creditBalance' = [creditBalance EXCEPT ![pl] = @ - 1]
        /\ toSend' = [toSend EXCEPT ![<<p, e>>] = @ - 1]
        /\ injected' = injected + 1
        /\ UNCHANGED <<queue, creditsOwed, rrPtr, lastGrant, limit, cfg, received>>

\* Mutant of runIgPort: the newest packet of the buffer is taken.
runIgPort_last(p, g) ==
    LET b == <<"Processor", p, g>>
    IN  /\ queue[b] # <<>>
        /\ received' = [received EXCEPT ![<<p, g>>] =
                Append(@, queue[b][Len(queue[b])])]
        /\ queue' = [queue EXCEPT ![b] = SubSeq(@, 1, Len(@) - 1)]
        /\ creditsOwed' = [creditsOwed EXCEPT ![b] = @ + 1]
        /\ UNCHANGED <<inFlight, creditBalance, rrPtr, lastGrant, toSend,
                       injected, limit, cfg>>

\* Mutant of runIgPort: the packet is peeked, not removed.
runIgPort_peek(p, g) ==
    LET b == <<"Processor", p, g>>
    IN  /\ queue[b] # <<>>
        /\ received' = [received EXCEPT ![<<p, g>>] = Append(@, Head(queue[b]))]
        /\ UNCHANGED <<inFlight, creditBalance, queue, creditsOwed, rrPtr,
                       lastGrant, toSend, injected, limit, cfg>>

\* Mutant of runEgPort: destProc is not drawn again when it is the processor's
\* own ID.
runEgPort_noRedraw(p, e) == runEgPortTo(p, e, Procs)

\* destProc = random.randint(0,5), drawn again while it is the processor's own ID.
runEgPort(p, e) == runEgPortTo(p, e, Procs \ {p})

\* Mutant of runIgPort: the processor gets one packet per port and then stops
\* listening (no "while True").
runIgPort_once(p, g) ==
    LET b == <<"Processor", p, g>>
    IN  /\ queue[b] # <<>>
        /\ received[<<p, g>>] = <<>>
        /\ received' = [received EXCEPT ![<<p, g>>] = Append(@, Head(queue[b]))]
        /\ queue' = [queue EXCEPT ![b] = Tail(@)]
        /\ creditsOwed' = [creditsOwed EXCEPT ![b] = @ + 1]
        /\ UNCHANGED <<inFlight, creditBalance, rrPtr, lastGrant, toSend,
                       injected, limit, cfg>>

\* Processor.runIgPort, one iteration: pkt = yield igport.get(), then the
\* processing delay (a timeout of 5 to 30) and the log line.  The delay only
\* postpones the next get, which the interleaving already leaves free.
runIgPort(p, g) ==
    LET b == <<"Processor", p, g>>
    IN  /\ queue[b] # <<>>
        /\ received' = [received EXCEPT ![<<p, g>>] = Append(@, Head(queue[b]))]
        /\ queue' = [queue EXCEPT ![b] = Tail(@)]
        /\ creditsOwed' = [creditsOwed EXCEPT ![b] = @ + 1]
        /\ UNCHANGED <<inFlight, creditBalance, rrPtr, lastGrant, toSend,
                       injected, limit, cfg>>

\* Processor.run: one runEgPort per egress port, one runIgPort per ingress port.
run(p) ==
    \/ \E e \in ProcEgports : runEgPort(p, e)
    \/ \E g \in ProcIgports : runIgPort(p, g)

\* ---------------------------------------------------------- specification
Next ==
    \/ \E p \in Procs : run(p)
    \/ \E a \in Arbiters : ArbCycle(a)
    \/ \E pl \in Pipelines : Deliver(pl)
    \/ \E b \in Buffers : receiveCredit(b)

Spec == Init /\ [][Next]_vars

\* The example under load on ring A: runEgPort's loop raised to Load iterations
\* on processor 0's pea, processor 1's pea as coded, the other egress ports
\* not scheduled.
LoadSend ==
    [ep \in EgPorts |->
        IF ep = <<0, "pea">> THEN Load
        ELSE IF ep = <<1, "pea">> THEN NumPkts ELSE 0]

InitLoad == InitWith(LoadSend, Load + NumPkts)

SpecLoad == InitLoad /\ [][Next]_vars

\* Scenario B: the links from a processor to its router built with capacity 1
\* and initCredits 1, the rest as in the example; processor 0 puts two packets
\* back-to-back on pea and no other port sends.
ScenarioBCfg ==
    [capacity |-> [b \in Buffers |->
        IF b[1] = "Router" /\ b[3] \in {"pia", "pib"} THEN 1 ELSE capacity(b)],
     initCredits |-> [pl \in Pipelines |->
        IF pl[1] = "Processor" THEN 1 ELSE initCredits(pl)]]

InitB == InitCfg([ep \in EgPorts |-> IF ep = <<0, "pea">> THEN 2 ELSE 0], 2, ScenarioBCfg)

SpecB == InitB /\ [][Next]_vars

\* ------------------------------------------------- scheduled specifications
\* The discrete-event scheduler resumes the steps due at one virtual time in a
\* fixed order (ties are resolved by port registration order).  SpecC and SpecD
\* order the steps of Next this way; each of their steps is a step of Next, so
\* every state they reach is a state the free interleaving reaches.

\* Registration order of the ports: units by ID, a processor before its router,
\* the ports in the order the constructors create them.
NameRank(n) ==
    CASE n = "rea" -> 0 [] n = "reb" -> 1 [] n = "pea" -> 2 [] n = "peb" -> 3
      [] n = "ria" -> 4 [] n = "rib" -> 5 [] n = "pia" -> 6 [] n = "pib" -> 7

Rank(c) == c[2] * 100 + (IF c[1] = "Processor" THEN 0 ELSE 50) + NameRank(c[3])

ArbRank(a) == a[1] * 10 + NameRank(a[2])

RingPipes == {pl \in Pipelines : pl[1] = "Router" /\ pl[3] \in {"rea", "reb"}}

PortPipes == Pipelines \ RingPipes

\* What each step waits for.
PutReady(ep) ==
    /\ toSend[ep] > 0
    /\ injected < limit
    /\ waitForCredit(<<"Processor", ep[1], ep[2]>>)

CreditReady(b) == creditsOwed[b] > 0

DeliverReady(pl) ==
    inFlight[pl] # <<>> /\ Len(queue[toDnBuffer(pl)]) < cfg.capacity[toDnBuffer(pl)]

ArbReady(a) == GrantedOuts(a) # {}

PutEnabled == \E ep \in EgPorts : PutReady(ep)

CreditEnabled == \E b \in Buffers : CreditReady(b)

DeliverEnabled == \E pl \in Pipelines : DeliverReady(pl)

\* The first of the ready ports in registration order.
FirstPut(ep) ==
    \A e2 \in EgPorts :
        PutReady(e2) => Rank(<<"Processor", ep[1], ep[2]>>) <= Rank(<<"Processor", e2[1], e2[2]>>)

FirstCredit(b) == \A b2 \in Buffers : CreditReady(b2) => Rank(b) <= Rank(b2)

FirstDeliver(pl, S) == \A p2 \in S : DeliverReady(p2) => Rank(pl) <= Rank(p2)

FirstArb(a) == \A a2 \in Arbiters : ArbReady(a2) => ArbRank(a) <= ArbRank(a2)

\* Scenario C, the example as coded: every runEgPort puts its packet at time 0,
\* the links and the arbiters then run in step, and each processor's get and
\* processing delay fall anywhere in between.
InitC == InitWith([ep \in EgPorts |-> NumPkts], NumPkts * 2 * NumProcs)

NextC ==
    \/ \E ep \in EgPorts : FirstPut(ep) /\ runEgPort(ep[1], ep[2])
    \/ /\ ~PutEnabled
       /\ \E b \in Buffers : FirstCredit(b) /\ receiveCredit(b)
    \/ /\ ~PutEnabled /\ ~CreditEnabled
       /\ \E pl \in Pipelines : FirstDeliver(pl, Pipelines) /\ Deliver(pl)
    \/ /\ ~PutEnabled /\ ~CreditEnabled /\ ~DeliverEnabled
       /\ \E a \in Arbiters : FirstArb(a) /\ ArbCycle(a)
    \/ /\ ~PutEnabled
       /\ \E p \in Procs : \E g \in ProcIgports : runIgPort(p, g)

\* The scheduler runs every event that is due: no enabled step waits forever.
SpecC == InitC /\ [][NextC]_vars /\ WF_vars(NextC)

\* A ring direction is locked: every router's ring-facing ingress buffer is full
\* of packets for other routers and the pipeline feeding it holds no credit.
RingDeadlock(ri, re) ==
    \A i \in Procs :
        /\ Len(queue[<<"Router", i, ri>>]) = cfg.capacity[<<"Router", i, ri>>]
        /\ \A k \in 1 .. Len(queue[<<"Router", i, ri>>]) :
              queue[<<"Router", i, ri>>][k].destProc # i
        /\ creditBalance[<<"Router", i, re>>] = 0

DeadlockA == RingDeadlock("ria", "rea")

\* Scenario D, the load of the docstring's note: runEgPort's loop raised to
\* LoadD iterations on every pea, each packet for the processor two routers
\* ahead on ring A.  Credit signals, puts and the processor-facing links run
\* first; a ring pipeline's delivery (of those ready, the last registered) and
\* an arbiter's cycle (of those ready, the first registered) are free against
\* each other; the processors get when the fabric is idle.  Once ring A is
\* locked every step of Next is free.
InitD == InitWith([ep \in EgPorts |-> IF ep[2] = "pea" THEN LoadD ELSE 0], LoadD * NumProcs)

PortBusy == PutEnabled \/ CreditEnabled \/ \E pl \in PortPipes : DeliverReady(pl)

FabricBusy ==
    \/ PortBusy
    \/ \E pl \in RingPipes : DeliverReady(pl)
    \/ \E a \in Arbiters : ArbReady(a)

LastRingDeliver(pl) == \A p2 \in RingPipes : DeliverReady(p2) => Rank(pl) >= Rank(p2)

NextD ==
    \/ \E b \in Buffers : (DeadlockA \/ FirstCredit(b)) /\ receiveCredit(b)
    \/ /\ DeadlockA \/ ~CreditEnabled
       /\ \E ep \in EgPorts :
             /\ DeadlockA \/ FirstPut(ep)
             /\ runEgPortTo(ep[1], ep[2], {(ep[1] + 2) % NumProcs})
    \/ /\ DeadlockA \/ (~PutEnabled /\ ~CreditEnabled)
       /\ \E pl \in PortPipes : (DeadlockA \/ FirstDeliver(pl, PortPipes)) /\ Deliver(pl)
    \/ /\ ~PortBusy
       /\ \E pl \in RingPipes : LastRingDeliver(pl) /\ Deliver(pl)
    \/ /\ ~PortBusy
       /\ \E a \in Arbiters : FirstArb(a) /\ ArbCycle(a)
    \/ /\ DeadlockA \/ ~FabricBusy
       /\ \E p \in Procs : \E g \in ProcIgports : runIgPort(p, g)

SpecD == InitD /\ [][NextD]_vars

\* ------------------------------------------------------------ vocabulary
SeqRange(s) == {s[k] : k \in 1 .. Len(s)}

RECURSIVE SumLen(_, _)
SumLen(f, S) ==
    IF S = {} THEN 0
    ELSE LET x == CHOOSE y \in S : TRUE
         IN  Len(f[x]) + SumLen(f, S \ {x})

\* The packets held by a pipeline or a buffer, and those a processor received.
HeldPkts ==
    UNION {SeqRange(inFlight[pl]) : pl \in Pipelines}
        \cup UNION {SeqRange(queue[b]) : b \in Buffers}
RxPkts == UNION {SeqRange(received[ip]) : ip \in IgPorts}
AllPkts == HeldPkts \cup RxPkts

HeldCount == SumLen(inFlight, Pipelines) + SumLen(queue, Buffers)
RxCount == SumLen(received, IgPorts)

\* What identifies a packet: its creator, the port and the loop iteration.
Tag(pkt) == <<pkt.srcProc, pkt.egport, pkt.iter>>
Hops(pkt) == SeqRange(pkt.hops)

\* ----------------------------------------------------------------- claims
\* C1: packet conservation.  The packets injected are as many as those received
\* plus those held by a pipeline or a buffer, and no two of the held and
\* received packets are the same packet: none is duplicated, none is lost.
C1_Conservation ==
    /\ injected = HeldCount + RxCount
    /\ Cardinality({Tag(k) : k \in AllPkts}) = injected

C1_Witness ==
    /\ injected = limit
    /\ RxCount > 0
    /\ HeldCount > 0

\* C2: a packet whose destProc is the router's ID and that is on the ring-facing
\* input (arbiter input 0) is routed to the processor-facing output (pea, peb):
\* so for the head of every ria/rib buffer, and so for every grant made.
C2_ExitAtDestination ==
    /\ \A a \in Arbiters :
          (0 \in Requests(a) /\ Head(queue[toUp(a, 0)]).destProc = a[1])
              => ArbToDn(a[2], routes(a, 0)) \in {"pea", "peb"}
    /\ \A k \in AllPkts : \A h \in Hops(k) :
          (h.inPort = 0 /\ k.destProc = h.routerID) => h.out \in {"pea", "peb"}

C2_Witness ==
    \E k \in AllPkts : \E h \in Hops(k) :
        h.inPort = 0 /\ k.destProc = h.routerID

\* C3: every other packet is granted the ring-facing output of the arbiter's own
\* ring (arbiter rea to egress rea, arbiter reb to egress reb), and a packet
\* injected on one ring is only ever held by components of that ring.
C3_StraightThrough ==
    /\ \A k \in AllPkts : \A h \in Hops(k) :
          ~(h.inPort = 0 /\ k.destProc = h.routerID) => h.out = h.arb
    /\ \A pl \in Pipelines : \A k \in SeqRange(inFlight[pl]) :
          RingOf(k.egport) = RingOf(pl[3])
    /\ \A b \in Buffers : \A k \in SeqRange(queue[b]) :
          RingOf(k.egport) = RingOf(b[3])
    /\ \A ip \in IgPorts : \A k \in SeqRange(received[ip]) :
          RingOf(k.egport) = RingOf(ip[2])

C3_Witness ==
    \E k \in AllPkts : \E h \in Hops(k) :
        /\ h.inPort = 0
        /\ k.destProc # h.routerID
        /\ h.arb = "reb"

\* C4: credit conservation.  For every pipeline, the credits it holds plus the
\* packets it accepted whose credit has not come back (in its stages, in the
\* bound buffer, or removed with the credit signal still on its way) are its
\* initCredits.
C4_CreditConservation ==
    \A pl \in Pipelines :
        creditBalance[pl] + Len(inFlight[pl]) + Len(queue[toDnBuffer(pl)])
            + creditsOwed[toDnBuffer(pl)] = initCredits(pl)

C4_Witness ==
    \E pl \in Pipelines :
        /\ creditBalance[pl] = 0
        /\ creditsOwed[toDnBuffer(pl)] > 0
        /\ inFlight[pl] # <<>>

\* C5: capacity.  No ingress buffer holds more than its capacity and no egress
\* pipeline holds more than depth packets in its stages.
C5_Capacity ==
    /\ \A b \in Buffers : Len(queue[b]) <= capacity(b)
    /\ \A pl \in Pipelines : Len(inFlight[pl]) <= depth(pl)

\* A ring pipeline with every stage taken, a ring buffer filled to its capacity
\* and a packet waiting at an arbiter for an output whose buffer is full.
C5_Witness ==
    /\ \E pl \in RingPipes : Len(inFlight[pl]) = depth(pl)
    /\ \E b \in Buffers : b[1] = "Router" /\ b[3] = "ria" /\ Len(queue[b]) = capacity(b)
    /\ \E a \in Arbiters : \E o \in OutPortSet :
          /\ Contenders(a, o) # {}
          /\ Len(queue[toDnBuffer(toDn(a, o))]) = capacity(toDnBuffer(toDn(a, o)))

\* C6: FIFO per buffer.  A step changes a buffer's queue only by removing its
\* head or by appending at its tail, so packets leave a buffer in the order
\* they were put into it.
FifoStep(b) ==
    \/ queue'[b] = queue[b]
    \/ queue[b] # <<>> /\ queue'[b] = Tail(queue[b])
    \/ /\ Len(queue'[b]) = Len(queue[b]) + 1
       /\ SubSeq(queue'[b], 1, Len(queue[b])) = queue[b]

C6_Fifo == [][\A b \in Buffers : FifoStep(b)]_vars

C6_Witness ==
    \E ip \in IgPorts :
        /\ Len(received[ip]) >= 2
        /\ queue[<<"Processor", ip[1], ip[2]>>] # <<>>

\* C7: credit-gated grant, no partial commit.  A packet enters an arbiter's
\* output pipeline only in a state where the pipeline holds a credit, which the
\* step spends; while the pipeline holds none, no step removes the head of an
\* input buffer routed to it, adds to the pipeline or lowers its creditBalance.
GrantStep(a, o) ==
    Len(inFlight'[toDn(a, o)]) > Len(inFlight[toDn(a, o)])

C7_GrantOk(a, o) ==
    LET pl == toDn(a, o)
    IN  /\ GrantStep(a, o) =>
              /\ creditBalance[pl] > 0
              /\ creditBalance'[pl] = creditBalance[pl] - 1
        /\ creditBalance[pl] = 0 =>
              /\ ~GrantStep(a, o)
              /\ creditBalance'[pl] >= 0
              /\ \A i \in Contenders(a, o) :
                    /\ queue'[toUp(a, i)] # <<>>
                    /\ Head(queue'[toUp(a, i)]) = Head(queue[toUp(a, i)])
                    /\ Len(queue'[toUp(a, i)]) >= Len(queue[toUp(a, i)])

C7_CreditGatedGrant ==
    [][\A a \in Arbiters : \A o \in OutPortSet : C7_GrantOk(a, o)]_vars

C7_Witness ==
    \E a \in Arbiters : \E o \in OutPortSet :
        /\ Contenders(a, o) # {}
        /\ creditBalance[toDn(a, o)] = 0

\* C8: round robin.  An input is not granted an output twice in a row while
\* the other input, which contended for that output at the first grant, is
\* still waiting for it.
GrantedInPort(a, o) ==
    LET k == inFlight'[toDn(a, o)][Len(inFlight'[toDn(a, o)])]
    IN  k.hops[Len(k.hops)].inPort

C8_RoundRobin ==
    [][\A a \in Arbiters : \A o \in OutPortSet :
          GrantStep(a, o) =>
              ~(/\ lastGrant[a][o].waiting
                /\ lastGrant[a][o].inPort = GrantedInPort(a, o))]_vars

\* Three packets in a row in one ring pipeline, granted from the ring-facing
\* input, the processor-facing input, and the ring-facing input again.
C8_Witness ==
    \E i \in Procs :
        LET f == inFlight[<<"Router", i, "rea">>]
        IN  /\ Len(f) = 3
            /\ f[1].hops[Len(f[1].hops)].inPort = 0
            /\ f[2].hops[Len(f[2].hops)].inPort = 1
            /\ f[3].hops[Len(f[3].hops)].inPort = 0
            /\ lastGrant[<<i, "rea">>][0] = [inPort |-> 0, waiting |-> FALSE]

\* Every egress port has put its NumPkts packets, nothing is held by a pipeline
\* or a buffer, and the packet of every port is in the log of an ingress port
\* of its destination processor.
AllDelivered ==
    /\ \A ep \in EgPorts : toSend[ep] = 0
    /\ HeldCount = 0
    /\ RxCount = NumPkts * 2 * NumProcs
    /\ \A ep \in EgPorts : \E ip \in IgPorts : \E k \in 1 .. Len(received[ip]) :
          /\ received[ip][k].srcProc = ep[1]
          /\ received[ip][k].egport = ep[2]
          /\ received[ip][k].destProc = ip[1]

\* C9 as stated, its load: each node injects exactly 1 packet (as many packets
\* as nodes), so no processor is ever the source of two packets.
C9_OnePacketPerNode ==
    \A p \in Procs : Cardinality({pkt \in AllPkts : pkt.srcProc = p}) <= 1

\* C9 (amended): Scenario C at the coded load.  Every node injects one packet
\* on each of its two egress ports (two per node), each to another node, and
\* for every choice of destinations and processing delays all of them are
\* eventually delivered to their destination processor, for good.
C9_AllDeliveredEventually == <>[]AllDelivered

\* All delivered, one of the packets over the longest route of its ring and two
\* of them received in turn on one ingress port.
C9_Witness ==
    /\ AllDelivered
    /\ \E pkt \in RxPkts : Len(pkt.hops) = NumProcs
    /\ \E ip \in IgPorts : Len(received[ip]) >= 2

\* Packets waiting in ring A's router ingress buffers (in the ring or joining it).
RingAHeld ==
    UNION {SeqRange(queue[<<"Router", i, "ria">>]) \cup SeqRange(queue[<<"Router", i, "pia">>]) :
           i \in Procs}

\* Packets that left ring A for a processor and are not yet received.
ExitAHeld ==
    UNION {SeqRange(inFlight[<<"Router", i, "pea">>]) \cup SeqRange(queue[<<"Processor", i, "pia">>]) :
           i \in Procs}

\* C10 as stated: once ring A is locked no further packet of ring A is
\* delivered to a processor.
C10_NoFurtherDelivery ==
    [][DeadlockA => \A p \in Procs : received'[<<p, "pia">>] = received[<<p, "pia">>]]_vars

\* C10 (amended): Scenario D.  From a state in which ring A is locked, no grant
\* of a ring A arbiter is enabled, the lock persists, the ring buffers and ring
\* pipelines keep their packets, no packet leaves a router's pia buffer, and no
\* packet waiting in a ria or pia buffer of a router is ever received; only
\* packets that had already left the ring for a processor are still delivered.
C10_Step ==
    DeadlockA =>
        /\ \A i \in Procs : GrantedOuts(<<i, "rea">>) = {}
        /\ DeadlockA'
        /\ \A i \in Procs :
              /\ queue'[<<"Router", i, "ria">>] = queue[<<"Router", i, "ria">>]
              /\ inFlight'[<<"Router", i, "rea">>] = inFlight[<<"Router", i, "rea">>]
              /\ Len(queue'[<<"Router", i, "pia">>]) >= Len(queue[<<"Router", i, "pia">>])
              /\ SubSeq(queue'[<<"Router", i, "pia">>], 1, Len(queue[<<"Router", i, "pia">>]))
                    = queue[<<"Router", i, "pia">>]
        /\ RingAHeld \cap RxPkts' = {}
        /\ RxPkts' \ RxPkts \subseteq ExitAHeld

C10_DeadlockPermanent == [][C10_Step]_vars

\* Ring A locked with a packet still waiting to join it, after the packets that
\* had left the ring were received and every credit signal was taken.
C10_Witness ==
    /\ DeadlockA
    /\ ExitAHeld = {}
    /\ RxCount > 0
    /\ \E i \in Procs : queue[<<"Router", i, "pia">>] # <<>>
    /\ ~CreditEnabled

\* C11: Scenario B, sender-side credit gating.  On a link of capacity 1 and
\* initCredits 1, while the packet of the first put is in the pipeline or in
\* the buffer, or its credit signal has not reached the pipeline, the next put
\* is suspended; a put is accepted only in a state where the link is empty,
\* the credit is back, and the put spends it.
C11_PutOk(ep) ==
    LET pl == <<"Processor", ep[1], ep[2]>>
        b == toDnBuffer(pl)
    IN  /\ (inFlight[pl] # <<>> \/ queue[b] # <<>> \/ creditsOwed[b] > 0)
              => /\ creditBalance[pl] = 0
                 /\ ~PutReady(ep)
                 /\ toSend'[ep] = toSend[ep]
        /\ toSend'[ep] < toSend[ep]
              => /\ inFlight[pl] = <<>> /\ queue[b] = <<>> /\ creditsOwed[b] = 0
                 /\ creditBalance[pl] = 1
                 /\ creditBalance'[pl] = 0

C11_SecondPutSuspended == [][\A ep \in EgPorts : C11_PutOk(ep)]_vars

\* The second put has been accepted: its packet is in the pipeline and the
\* packet of the first put has left the buffer.
C11_Witness ==
    /\ toSend[<<0, "pea">>] = 0
    /\ injected = 2
    /\ Len(inFlight[<<"Processor", 0, "pea">>]) = 1
    /\ inFlight[<<"Processor", 0, "pea">>][1].iter = 1
    /\ queue[<<"Router", 0, "pia">>] = <<>>

\* C12: delivery only at the destination.  Every packet a processor's runIgPort
\* received from pia or pib has that processor's ID as destProc, and so has
\* every packet on its way from a router's pea/peb to the processor.
C12_DeliveredAtDestination ==
    /\ \A ip \in IgPorts : \A k \in SeqRange(received[ip]) : k.destProc = ip[1]
    /\ \A ip \in IgPorts : \A k \in SeqRange(queue[<<"Processor", ip[1], ip[2]>>]) :
          k.destProc = ip[1]
    /\ \A i \in Procs : \A e \in ProcEgports : \A k \in SeqRange(inFlight[<<"Router", i, e>>]) :
          k.destProc = i

\* A processor received a packet that went through a router that is neither
\* its sender's nor its own, and another processor received one as well.
C12_Witness ==
    \E ip \in IgPorts : \E k \in SeqRange(received[ip]) :
        /\ \E h \in Hops(k) : h.routerID # k.srcProc /\ h.routerID # k.destProc
        /\ \E ip2 \in IgPorts : ip2[1] # ip[1] /\ received[ip2] # <<>>

\* C13: at most one winner per output.  No step puts more than one packet into
\* a pipeline or takes more than one packet from a buffer, and a grant made
\* while both inputs of the arbiter hold head packets routed to the output
\* dequeues exactly one of the two.
C13_Ok(a, o) ==
    /\ Len(inFlight'[toDn(a, o)]) <= Len(inFlight[toDn(a, o)]) + 1
    /\ (GrantStep(a, o) /\ Cardinality(Contenders(a, o)) = 2)
          => Cardinality({i \in Contenders(a, o) :
                             queue'[toUp(a, i)] # queue[toUp(a, i)]}) = 1

C13_OneWinnerPerOutput ==
    [][/\ \A a \in Arbiters : \A o \in OutPortSet : C13_Ok(a, o)
       /\ \A b \in Buffers : Len(queue'[b]) >= Len(queue[b]) - 1]_vars

\* A grant was made on an output both inputs contended for: the winner's packet
\* is in the output's pipeline and the other input still holds its head packet.
C13_Witness ==
    \E a \in Arbiters : \E o \in OutPortSet :
        /\ lastGrant[a][o].waiting
        /\ inFlight[toDn(a, o)] # <<>>
        /\ \E i \in Contenders(a, o) : i # lastGrant[a][o].inPort

\* C14: credit balance bounds.  Every pipeline's creditBalance is at least 0 and
\* at most its initCredits in every reachable state; a step that lowers it
\* starts from a positive balance and a step that raises it ends at most at
\* initCredits.
C14_Bounds ==
    \A pl \in Pipelines : 0 <= creditBalance[pl] /\ creditBalance[pl] <= initCredits(pl)

C14_CreditBounds ==
    [][/\ C14_Bounds
       /\ \A pl \in Pipelines :
             /\ creditBalance'[pl] < creditBalance[pl] => creditBalance[pl] > 0
             /\ creditBalance'[pl] > creditBalance[pl] => creditBalance'[pl] <= initCredits(pl)]_vars

\* A ring pipeline and a processor's pipeline have spent all their credits
\* while a router's pea pipeline has all of its credits back after a delivery.
C14_Witness ==
    /\ \E i \in Procs : creditBalance[<<"Router", i, "rea">>] = 0
    /\ \E i \in Procs : creditBalance[<<"Processor", i, "pea">>] = 0
    /\ \E i \in Procs :
          /\ received[<<i, "pia">>] # <<>>
          /\ creditBalance[<<"Router", i, "pea">>] = initCredits(<<"Router", i, "pea">>)

\* C15: valid destinations.  Every packet created by runEgPort has the creating
\* processor's ID as srcProc and the ID of another processor of the ring as
\* destProc: so for the packets in a processor's egress pipeline, where they
\* are created, and for every packet anywhere in the system.
C15_ValidDestinations ==
    /\ \A ep \in EgPorts : \A k \in SeqRange(inFlight[<<"Processor", ep[1], ep[2]>>]) :
          k.srcProc = ep[1] /\ k.egport = ep[2]
    /\ \A k \in AllPkts :
          /\ k.srcProc \in Procs
          /\ k.destProc \in Procs
          /\ k.destProc # k.srcProc

\* Two packets were created, for different destinations, one of them by the
\* processor with the highest ID for processor 0.
C15_Witness ==
    /\ \E k \in AllPkts : k.srcProc = NumProcs - 1 /\ k.destProc = 0
    /\ \E k1 \in AllPkts : \E k2 \in AllPkts : k1.destProc # k2.destProc

\* C16: round-robin pointer update.  A step that commits a grant on an output
\* leaves the output's pointer just past the winning input; every other step,
\* and so every step taken while the winner of the output is denied for lack of
\* credit, leaves the pointer unchanged, so that the input that had priority
\* still has it when the credit returns.
C16_Ok(a, o) ==
    /\ GrantStep(a, o) => rrPtr'[a][o] = (GrantedInPort(a, o) + 1) % inPorts
    /\ ~GrantStep(a, o) => rrPtr'[a][o] = rrPtr[a][o]
    /\ (Contenders(a, o) # {} /\ creditBalance[toDn(a, o)] = 0)
          => /\ rrPtr'[a][o] = rrPtr[a][o]
             /\ (Contenders(a, o)' # {} /\ creditBalance'[toDn(a, o)] > 0)
                   => Winner(a, o)' = Winner(a, o)

C16_PointerUpdate == [][\A a \in Arbiters : \A o \in OutPortSet : C16_Ok(a, o)]_vars

\* Both inputs contend for an output whose pipeline has no credit, after
\* grants that left the pointer at input 1.
C16_Witness ==
    \E a \in Arbiters : \E o \in OutPortSet :
        /\ Contenders(a, o) = InPortSet
        /\ creditBalance[toDn(a, o)] = 0
        /\ rrPtr[a][o] = 1

\* C17: credits match buffer space.  Every pipeline's initCredits is the
\* capacity of the one buffer it is bound to (router rea/reb 4 to the next
\* router's ria/rib 4, router pea/peb 2 to the processor's pia/pib 2, processor
\* pea/peb 2 to the router's pia/pib 2), and in every reachable state a
\* pipeline holding a packet to deliver finds its buffer below capacity.
C17_Bound(pl, b, n) ==
    /\ toDnBuffer(pl) = b
    /\ \A b2 \in Buffers : <<pl, b2>> \in createSystem => b2 = b
    /\ initCredits(pl) = n
    /\ capacity(b) = n
    /\ cfg.initCredits[pl] = n
    /\ cfg.capacity[b] = n

C17_CreditsMatchSpace ==
    /\ \A i \in Procs :
          /\ C17_Bound(<<"Router", i, "rea">>, <<"Router", (i + 1) % NumProcs, "ria">>, 4)
          /\ C17_Bound(<<"Router", (i + 1) % NumProcs, "reb">>, <<"Router", i, "rib">>, 4)
          /\ \A r \in {"a", "b"} :
                LET pe == IF r = "a" THEN "pea" ELSE "peb"
                    pi == IF r = "a" THEN "pia" ELSE "pib"
                IN  /\ C17_Bound(<<"Router", i, pe>>, <<"Processor", i, pi>>, 2)
                    /\ C17_Bound(<<"Processor", i, pe>>, <<"Router", i, pi>>, 2)
    /\ \A pl \in Pipelines :
          inFlight[pl] # <<>> => Len(queue[toDnBuffer(pl)]) < capacity(toDnBuffer(pl))

\* A ring pipeline with all its credits spent is about to deliver into the one
\* free place of its buffer, on ring A.
C17_Witness ==
    \E i \in Procs :
        LET pl == <<"Router", i, "rea">>
        IN  /\ inFlight[pl] # <<>>
            /\ creditBalance[pl] = 0
            /\ Len(queue[toDnBuffer(pl)]) = capacity(toDnBuffer(pl)) - 1

\* C18: packets from the processor-facing input always enter the ring.  route
\* gives output 0 for input 1 whatever destProc is, the router's own ID
\* included; so in every reachable state the head of a pia/pib buffer is routed
\* to output 0, output 1 is requested by input 0 alone, and only output 0 has
\* two contenders.
C18_JoinRing ==
    /\ \A routerID \in Procs : \A destProc \in Procs : \A srcProc \in Procs :
          route(routerID, 1, [srcProc |-> srcProc, destProc |-> destProc]) = 0
    /\ \A a \in Arbiters :
          /\ 1 \in Requests(a) => routes(a, 1) = 0
          /\ Contenders(a, 1) \subseteq {0}
          /\ \A o \in OutPortSet : Cardinality(Contenders(a, o)) = 2 => o = 0

\* Both inputs of one arbiter contend for output 0 while the ring-facing input
\* of another requests output 1.
C18_Witness ==
    /\ \E a \in Arbiters : Contenders(a, 0) = InPortSet
    /\ \E a \in Arbiters : Contenders(a, 1) = {0}

\* The router-to-router links between the router of processor s and that of
\* processor d: over ring A (pea) towards higher IDs, over ring B (peb) towards
\* lower IDs.
RingDistance(k) ==
    IF k.egport = "pea"
    THEN (k.destProc - k.srcProc + NumProcs) % NumProcs
    ELSE (k.srcProc - k.destProc + NumProcs) % NumProcs

\* The j-th router on the way of packet k.
PathRouter(k, j) ==
    IF k.egport = "pea"
    THEN (k.srcProc + (j - 1)) % NumProcs
    ELSE (k.srcProc - (j - 1) + NumProcs) % NumProcs

\* C19: path of a packet.  The routing decisions taken for a packet injected by
\* processor s on pea are taken at routers s, s+1, ... (mod the ring size) in
\* that order by the rea arbiters, on peb at routers s, s-1, ... by the reb
\* arbiters; it enters at the processor-facing input, goes on at the
\* ring-facing one, leaves the ring at router d and nowhere before, after
\* (d-s), respectively (s-d), mod the ring size router-to-router links, at most
\* ring size - 1; and it is received on pia, respectively pib, of processor d.
C19_OnPath(k) ==
    LET n == Len(k.hops)
        last == RingDistance(k) + 1
    IN  /\ RingDistance(k) >= 1
        /\ RingDistance(k) <= NumProcs - 1
        /\ n <= last
        /\ \A j \in 1 .. n :
              /\ k.hops[j].routerID = PathRouter(k, j)
              /\ k.hops[j].arb = (IF k.egport = "pea" THEN "rea" ELSE "reb")
              /\ k.hops[j].inPort = (IF j = 1 THEN 1 ELSE 0)
              /\ k.hops[j].out =
                    (IF j = last
                     THEN k.egport
                     ELSE (IF k.egport = "pea" THEN "rea" ELSE "reb"))
              /\ k.hops[j].routerID = k.destProc <=> j = last

C19_PacketPath ==
    /\ \A k \in AllPkts : C19_OnPath(k)
    /\ \A ip \in IgPorts : \A k \in SeqRange(received[ip]) :
          /\ Len(k.hops) = RingDistance(k) + 1
          /\ ip = <<k.destProc, IF k.egport = "pea" THEN "pia" ELSE "pib">>

\* Two packets received after the longest way round, one over each ring.
C19_Witness ==
    /\ \E k \in RxPkts : k.egport = "pea" /\ Len(k.hops) = NumProcs
    /\ \E k \in RxPkts : k.egport = "peb" /\ Len(k.hops) = NumProcs

DeadlockB == RingDeadlock("rib", "reb")

\* Packets of one ring held by pipelines and buffers.
HeldOnRing(r) == {k \in HeldPkts : RingOf(k.egport) = r}

\* Some packet is still to be put or to be received.
Unfinished == HeldCount > 0 \/ \E ep \in EgPorts : toSend[ep] > 0

\* C20: deadlock freedom at the coded load.  Every processor injects exactly
\* one packet on pea and one on peb, so at most as many packets as nodes are
\* ever on one ring; in every reachable state with a packet still to be put or
\* received some step (a put accepted, a pipeline delivery, an arbiter grant, a
\* processor get, or a credit signal already on its way) is enabled, for the
\* scheduler and for the free interleaving alike, and neither ring is locked.
C20_DeadlockFree ==
    /\ \A ep \in EgPorts :
          /\ toSend[ep] \in 0 .. NumPkts
          /\ Cardinality({k \in AllPkts : k.srcProc = ep[1] /\ k.egport = ep[2]})
                = NumPkts - toSend[ep]
    /\ \A r \in {"a", "b"} : Cardinality(HeldOnRing(r)) <= NumPkts * NumProcs
    /\ Unfinished => (ENABLED Next /\ ENABLED NextC)
    /\ ~DeadlockA
    /\ ~DeadlockB

\* Every packet of the example is in the fabric, none received yet, with both
\* inputs of an arbiter contending for the ring on each of the two rings.
C20_Witness ==
    /\ injected = NumPkts * 2 * NumProcs
    /\ RxCount = 0
    /\ \E i \in Procs : Contenders(<<i, "rea">>, 0) = InPortSet
    /\ \E i \in Procs : Contenders(<<i, "reb">>, 0) = InPortSet
====
